---- MODULE Spec2Model ----
(***************************************************************************)
(* The notify commands of re_data's command line (re_data/command_line.py):*)
(* `re_data notify slack` and `re_data notify email`.  One behaviour is    *)
(* one invocation of one of the two commands: validation of the selected   *)
(* alert types, channel configuration, the export_alerts subprocess, the   *)
(* loading of the two exported files, the dispatch loop and the final      *)
(* log_notification_status call.  Every call that has an effect outside    *)
(* the process is appended to `log`, in the order the command makes it.    *)
(*                                                                         *)
(* The `re_data run` command is modelled beside them (SpecRun): one        *)
(* behaviour is one invocation, the log holds its dbt invocations.         *)
(***************************************************************************)
EXTENDS Integers, Sequences, FiniteSets, TLC

VARIABLES
    cmd,            \* "slack" or "email": the command invoked
    select,         \* --select: the alert types selected
    send_all_good,  \* --send-all-good / --no-send-all-good
    pc,             \* the statement the command is at
    err,            \* the exception that ended the command, "none" if none
    loaded,         \* both json.load calls have returned
    alerts,         \* alerts      = json.load(alerts.json)
    monitored,      \* monitored   = json.load(monitored.json)
    i,              \* position of the for loop in the keys of its dict (1-based)
    alerts_found,   \* slack's alerts_found flag
    log,            \* the calls made so far, oldest first
    ledger,         \* the entries earlier invocations wrote to the ledger
    start_date,     \* run: --start-date, in hours since datetime.min
    end_date,       \* run: --end-date, in hours since datetime.min
    interval,       \* run: --interval, split at ':' into grain and count
    full_refresh,   \* run: --full-refresh
    for_date,       \* run: the start of the window the loop is at
    delta           \* run: the timedelta of the interval, in hours

vars == <<cmd, select, send_all_good, pc, err, loaded, alerts, monitored,
          i, alerts_found, log, ledger, start_date, end_date, interval,
          full_refresh, for_date, delta>>

----------------------------------------------------------------------------
(* Bounds and the data the inputs are drawn from *)

MaxAlerts == 2

Models == {"orders", "customers"}

Owners == {"ann", "bob"}

NO_OWNER == "NO_OWNER"

ALERT_TYPES == {"anomaly", "schema_change", "test"}

\* The --select values tried: the default (all types), one type, and a
\* selection holding a type outside ALERT_TYPES.
Selections == {ALERT_TYPES, {"anomaly"}, {"anomaly", "bogus"}}

\* The types the exported alerts are drawn from: one that every selection
\* tried keeps and one that the narrow selection drops.
ExportedTypes == {"anomaly", "schema_change"}

AlertRecords == [model : Models, type : ExportedTypes]

\* Sequences over S of length at most n.
SeqsUpTo(S, n) == UNION {[1..k -> S] : k \in 0..n}

\* Sequences over S without repetition.
DistinctSeqs(S) ==
    {s \in SeqsUpTo(S, Cardinality(S)) :
        \A a, b \in 1..Len(s) : a # b => s[a] # s[b]}

\* A monitored.json: each model at most once, each with the list of
\* identifiers configured for the command's channel (possibly empty).
MonitoredLists ==
    {s \in SeqsUpTo([model : Models, owners : DistinctSeqs(Owners)],
                    Cardinality(Models)) :
        \A a, b \in 1..Len(s) : a # b => s[a].model # s[b].model}

\* An alerts.json: up to MaxAlerts alert records, in file order.
AlertLists == SeqsUpTo(AlertRecords, MaxAlerts)

----------------------------------------------------------------------------
(* Python helpers *)

Range(s) == {s[k] : k \in 1..Len(s)}

\* The keys of a dict filled by walking s: first occurrences, in order.
RECURSIVE InsertionOrder(_)
InsertionOrder(s) ==
    IF s = <<>> THEN <<>>
    ELSE LET front == InsertionOrder(SubSeq(s, 1, Len(s) - 1))
             last  == s[Len(s)]
         IN  IF last \in Range(front) THEN front ELSE Append(front, last)

RECURSIVE Flatten(_)
Flatten(ss) ==
    IF ss = <<>> THEN <<>> ELSE Head(ss) \o Flatten(Tail(ss))

\* An insertion-ordered dict: its keys in order, and the value of each key.
Dict(keys, val) == [keys |-> keys, val |-> val]

DictLen(d) == Len(d.keys)

----------------------------------------------------------------------------
(* re_data.notifications.utils *)

validate_alert_types(selected_alert_types) ==
    selected_alert_types \subseteq ALERT_TYPES

\* model -> identifiers of the channel, for every monitored model.
build_notification_identifiers_per_model(monitored_list) ==
    Dict([k \in 1..Len(monitored_list) |-> monitored_list[k].model],
         [m \in {monitored_list[k].model : k \in 1..Len(monitored_list)} |->
            LET k == CHOOSE k \in 1..Len(monitored_list) :
                        monitored_list[k].model = m
            IN  monitored_list[k].owners])

\* dict.get(key, default)
Get(d, key, default) ==
    IF key \in Range(d.keys) THEN d.val[key] ELSE default

Qualifying(alert_list, selected_alert_types) ==
    SelectSeq(alert_list, LAMBDA a : a.type \in selected_alert_types)

\* model -> its qualifying alerts, for every model with at least one.
create_models_to_alerts_map(alert_list, selected_alert_types) ==
    LET q    == Qualifying(alert_list, selected_alert_types)
        keys == InsertionOrder([k \in 1..Len(q) |-> q[k].model])
    IN  Dict(keys,
             [m \in Range(keys) |-> SelectSeq(q, LAMBDA a : a.model = m)])

\* model -> qualifying alerts and identifiers, for every model with at
\* least one qualifying alert.
prepare_exported_alerts_per_model(alert_list, members_per_model, sel) ==
    LET by_model == create_models_to_alerts_map(alert_list, sel)
    IN  Dict(by_model.keys,
             [m \in Range(by_model.keys) |->
                [alerts |-> by_model.val[m],
                 owners |-> Get(members_per_model, m, <<>>)]])

\* The keys a monitored model is filed under: its identifiers, or the
\* NO_OWNER bucket when it has none.
OwnerKeys(rec) == IF rec.owners = <<>> THEN <<NO_OWNER>> ELSE rec.owners

\* identifier -> models, plus NO_OWNER -> models without identifier.
create_owners_to_models_map(monitored_models) ==
    LET keys == InsertionOrder(Flatten(
                    [k \in 1..Len(monitored_models) |->
                        OwnerKeys(monitored_models[k])]))
    IN  Dict(keys,
             [o \in Range(keys) |->
                LET mine == SelectSeq(monitored_models,
                                LAMBDA r : o \in Range(OwnerKeys(r)))
                IN  [k \in 1..Len(mine) |-> mine[k].model]])

----------------------------------------------------------------------------
(* The dicts the two commands build after loading *)

slack_members == build_notification_identifiers_per_model(monitored)

\* alerts_per_model built without the selection (every canonical type).
alerts_per_model_unselected ==
    prepare_exported_alerts_per_model(alerts, slack_members, ALERT_TYPES)

alerts_per_model ==
    prepare_exported_alerts_per_model(alerts, slack_members, select)

email_to_models_map == create_owners_to_models_map(monitored)

model_to_alerts_map == create_models_to_alerts_map(alerts, select)

----------------------------------------------------------------------------
(* Calls *)

\* One entry of the log.
Call(op, to, kind, models, owners, payload, outcome) ==
    [op |-> op, to |-> to, kind |-> kind, models |-> models,
     owners |-> owners, payload |-> payload, outcome |-> outcome]

Plain(op, outcome) == Call(op, "", "", {}, <<>>, <<>>, outcome)

Deliveries == {"slack_notify", "send_mime_email"}

\* How a delivery call can end: it returns, or the transport raises.
TransportOutcomes == {"ok", "transient_error", "terminal_error"}

\* The variables of `run`, and their values while a notify command runs.
RunState == <<start_date, end_date, interval, full_refresh, for_date, delta>>

RunIdle ==
    /\ start_date = 0
    /\ end_date = 0
    /\ interval = [time_grain |-> "days", num |-> 1]
    /\ full_refresh = FALSE
    /\ for_date = 0
    /\ delta = 0

\* A notify command at its first statement.
NotifyStart ==
    /\ cmd \in {"slack", "email"}
    /\ select \in Selections
    /\ send_all_good \in BOOLEAN
    /\ pc = "validate"
    /\ err = "none"
    /\ loaded = FALSE
    /\ alerts = <<>>
    /\ monitored = <<>>
    /\ i = 1
    /\ alerts_found = FALSE
    /\ log = <<>>
    /\ RunIdle

Init ==
    /\ NotifyStart
    /\ ledger = <<>>

\* An exception that nothing catches ends the command.
Raise(e) ==
    /\ pc' = "failed"
    /\ err' = e

Inputs == <<cmd, select, send_all_good, ledger, RunState>>

Data == <<loaded, alerts, monitored>>

----------------------------------------------------------------------------
(* The steps shared by slack and email *)

\* ValidateAlertTypes with the result of the validation ignored.
ValidateAlertTypes_ignored ==
    /\ pc = "validate"
    /\ pc' = "config"
    /\ UNCHANGED <<Inputs, Data, err, i, alerts_found, log>>

\* validate_alert_types(selected_alert_types=select)
ValidateAlertTypes ==
    /\ pc = "validate"
    /\ IF validate_alert_types(select)
       THEN pc' = "config" /\ err' = err
       ELSE Raise("invalid_selection")
    /\ UNCHANGED <<Inputs, Data, i, alerts_found, log>>

\* ReadConfig without validate_config_section.
ReadConfig_unvalidated ==
    /\ pc = "config"
    /\ \/ /\ cmd = "slack"
          /\ UNCHANGED log
       \/ \E section_ok \in BOOLEAN :
            log' = Append(log, Plain("read_re_data_config",
                            IF section_ok THEN "ok" ELSE "missing"))
    /\ pc' = "export"
    /\ UNCHANGED <<Inputs, Data, err, i, alerts_found>>

\* slack: the config file is read only without --webhook-url;
\* email: always.  validate_config_section raises on a missing field.
ReadConfig ==
    /\ pc = "config"
    /\ \/ /\ cmd = "slack"          \* --webhook-url given
          /\ pc' = "export"
          /\ UNCHANGED <<err, log>>
       \/ \E section_ok \in BOOLEAN :
            /\ log' = Append(log, Plain("read_re_data_config",
                                IF section_ok THEN "ok" ELSE "missing"))
            /\ IF section_ok
               THEN pc' = "export" /\ err' = err
               ELSE Raise("config")
    /\ UNCHANGED <<Inputs, Data, i, alerts_found>>

\* ExportAlerts without completed_process.check_returncode().
ExportAlerts_unchecked ==
    /\ pc = "export"
    /\ \E returncode \in {0, 1} :
        /\ log' = Append(log, Plain("export_alerts",
                            IF returncode = 0 THEN "ok" ELSE "nonzero"))
        /\ pc' = IF cmd = "slack" THEN "normalize" ELSE "load"
        /\ err' = err
    /\ UNCHANGED <<Inputs, Data, i, alerts_found>>

\* slack 495-499, email 600-604:
\* subprocess.run(['dbt', 'run-operation', 'export_alerts', ...]);
\* completed_process.check_returncode().  slack goes on to normalize the
\* exports, email goes on to load them.
ExportAlerts ==
    /\ pc = "export"
    /\ \E returncode \in {0, 1} :
        /\ log' = Append(log, Plain("export_alerts",
                            IF returncode = 0 THEN "ok" ELSE "nonzero"))
        /\ IF returncode = 0
           THEN /\ pc' = IF cmd = "slack" THEN "normalize" ELSE "load"
                /\ err' = err
           ELSE Raise("export")
    /\ UNCHANGED <<Inputs, Data, i, alerts_found>>

\* slack only: normalize_re_data_json_export(alerts_path) and
\* normalize_re_data_json_export(monitored_path); a file that is not JSON
\* cannot be normalized.
NormalizeExports ==
    /\ pc = "normalize"
    /\ \E parses \in BOOLEAN :
        /\ log' = Append(log, Plain("normalize_re_data_json_export",
                            IF parses THEN "ok" ELSE "malformed"))
        /\ IF parses
           THEN pc' = "load" /\ err' = err
           ELSE Raise("json")
    /\ UNCHANGED <<Inputs, Data, i, alerts_found>>

\* slack 504-507, email 606-609:
\* alerts = json.load(f); monitored = json.load(f)
LoadExports ==
    /\ pc = "load"
    /\ \/ /\ log' = Append(log, Plain("json.load", "malformed"))
          /\ Raise("json")
          /\ UNCHANGED Data
       \/ \E a \in AlertLists, m \in MonitoredLists :
            /\ log' = Append(log, Plain("json.load", "ok"))
            /\ alerts' = a
            /\ monitored' = m
            /\ loaded' = TRUE
            /\ pc' = "loop"
            /\ err' = err
    /\ UNCHANGED <<Inputs, i, alerts_found>>

----------------------------------------------------------------------------
(* slack: lines 513-523 *)

WEBHOOK == "webhook_url"

\* generate_slack_message(model, details, owners, subtitle, selected_alert_types)
generate_slack_message(model, details, owners) ==
    [kind |-> "alert", models |-> {model}, owners |-> owners,
     payload |-> details.alerts]

\* generate_all_good_slack_message(subtitle)
generate_all_good_slack_message ==
    [kind |-> "all_good", models |-> {}, owners |-> <<>>, payload |-> <<>>]

slack_notify(message, outcome) ==
    Call("slack_notify", WEBHOOK, message.kind, message.models,
         message.owners, message.payload, outcome)

\* SlackNotifyModel skipping the models an earlier ledger entry reports.
SlackNotifyModel_dedup ==
    /\ pc = "loop"
    /\ cmd = "slack"
    /\ i <= DictLen(alerts_per_model)
    /\ LET model   == alerts_per_model.keys[i]
           details == alerts_per_model.val[model]
           owners  == Get(slack_members, model, <<>>)
           message == generate_slack_message(model, details, owners)
       IN  IF \E k \in 1..Len(ledger) : model \in ledger[k].models
           THEN /\ i' = i + 1
                /\ alerts_found' = TRUE
                /\ UNCHANGED <<pc, err, log>>
           ELSE \E outcome \in TransportOutcomes :
                /\ log' = Append(log, slack_notify(message, outcome))
                /\ IF outcome = "ok"
                   THEN /\ alerts_found' = TRUE
                        /\ i' = i + 1
                        /\ UNCHANGED <<pc, err>>
                   ELSE /\ Raise("transport")
                        /\ UNCHANGED <<i, alerts_found>>
    /\ UNCHANGED <<Inputs, Data>>

\* One iteration of `for model, details in alerts_per_model.items()`.
SlackNotifyModel ==
    /\ pc = "loop"
    /\ cmd = "slack"
    /\ i <= DictLen(alerts_per_model)
    /\ LET model   == alerts_per_model.keys[i]
           details == alerts_per_model.val[model]
           owners  == Get(slack_members, model, <<>>)
           message == generate_slack_message(model, details, owners)
       IN  \E outcome \in TransportOutcomes :
            /\ log' = Append(log, slack_notify(message, outcome))
            /\ IF outcome = "ok"
               THEN /\ alerts_found' = TRUE
                    /\ i' = i + 1
                    /\ UNCHANGED <<pc, err>>
               ELSE /\ Raise("transport")
                    /\ UNCHANGED <<i, alerts_found>>
    /\ UNCHANGED <<Inputs, Data>>

\* SlackAllGood testing `if not alerts_found` only.
SlackAllGood_always ==
    /\ pc = "loop"
    /\ cmd = "slack"
    /\ i > DictLen(alerts_per_model)
    /\ IF ~alerts_found
       THEN \E outcome \in TransportOutcomes :
            /\ log' = Append(log, slack_notify(generate_all_good_slack_message,
                                               outcome))
            /\ IF outcome = "ok"
               THEN pc' = "ledger" /\ err' = err
               ELSE Raise("transport")
       ELSE /\ pc' = "ledger"
            /\ UNCHANGED <<err, log>>
    /\ UNCHANGED <<Inputs, Data, i, alerts_found>>

\* After the loop: `if not alerts_found and send_all_good`.
SlackAllGood ==
    /\ pc = "loop"
    /\ cmd = "slack"
    /\ i > DictLen(alerts_per_model)
    /\ IF ~alerts_found /\ send_all_good
       THEN \E outcome \in TransportOutcomes :
            /\ log' = Append(log, slack_notify(generate_all_good_slack_message,
                                               outcome))
            /\ IF outcome = "ok"
               THEN pc' = "ledger" /\ err' = err
               ELSE Raise("transport")
       ELSE /\ pc' = "ledger"
            /\ UNCHANGED <<err, log>>
    /\ UNCHANGED <<Inputs, Data, i, alerts_found>>

----------------------------------------------------------------------------
(* email: lines 616-643 *)

\* all_models without the models of the NO_OWNER bucket.
all_models_own_only(owner_map, email) ==
    Range(Get(owner_map, email, <<>>))

\* all_models = set(models_to_notify + models_with_no_owners)
all_models(owner_map, email) ==
    LET models_with_no_owners == Get(owner_map, NO_OWNER, <<>>)
        models_to_notify      == Get(owner_map, email, <<>>)
    IN  Range(models_to_notify \o models_with_no_owners)

\* render.render_email_alert(alerts=model_to_alerts_map, owner=email,
\*                           models_to_notify=all_models)
render_email_alert(alert_map, email, models_to_notify) ==
    [kind |-> "alert", models |-> models_to_notify, owners |-> <<email>>,
     payload |-> Flatten([k \in 1..Len(alert_map.keys) |->
                            alert_map.val[alert_map.keys[k]]])]

send_mime_email(message, mail_to, outcome) ==
    Call("send_mime_email", mail_to, message.kind, message.models,
         message.owners, message.payload, outcome)

\* The break guard testing `len(model_to_alerts_map) == 0 and send_all_good`.
NothingToSend_inverted == DictLen(model_to_alerts_map) = 0 /\ send_all_good

\* `if len(model_to_alerts_map) == 0 and not send_all_good: break`
NothingToSend == DictLen(model_to_alerts_map) = 0 /\ ~send_all_good

\* EmailOwner with the guard asking whether this recipient's models have
\* alerts, and skipping the recipient (continue) when they have none.
EmailOwner_per_recipient ==
    /\ pc = "loop"
    /\ cmd = "email"
    /\ i <= DictLen(email_to_models_map)
    /\ LET email == email_to_models_map.keys[i]
           mine  == all_models(email_to_models_map, email)
       IN  IF email = NO_OWNER
           THEN /\ i' = i + 1
                /\ UNCHANGED <<pc, err, log>>
           ELSE IF mine \cap Range(model_to_alerts_map.keys) = {}
                   /\ ~send_all_good
           THEN /\ i' = i + 1
                /\ UNCHANGED <<pc, err, log>>
           ELSE LET message == render_email_alert(model_to_alerts_map, email,
                                                  mine)
                IN  \E outcome \in TransportOutcomes :
                    /\ log' = Append(log,
                                send_mime_email(message, email, outcome))
                    /\ IF outcome = "ok"
                       THEN /\ i' = i + 1
                            /\ UNCHANGED <<pc, err>>
                       ELSE /\ Raise("transport")
                            /\ UNCHANGED i
    /\ UNCHANGED <<Inputs, Data, alerts_found>>

\* One iteration of `for email in email_to_models_map`.
EmailOwner ==
    /\ pc = "loop"
    /\ cmd = "email"
    /\ i <= DictLen(email_to_models_map)
    /\ LET email == email_to_models_map.keys[i]
       IN  IF email = NO_OWNER
           THEN /\ i' = i + 1
                /\ UNCHANGED <<pc, err, log>>
           ELSE IF NothingToSend
           THEN /\ pc' = "ledger"
                /\ UNCHANGED <<err, log, i>>
           ELSE LET message == render_email_alert(model_to_alerts_map, email,
                                   all_models(email_to_models_map, email))
                IN  \E outcome \in TransportOutcomes :
                    /\ log' = Append(log,
                                send_mime_email(message, email, outcome))
                    /\ IF outcome = "ok"
                       THEN /\ i' = i + 1
                            /\ UNCHANGED <<pc, err>>
                       ELSE /\ Raise("transport")
                            /\ UNCHANGED i
    /\ UNCHANGED <<Inputs, Data, alerts_found>>

\* The for loop has run out of keys.
EmailLoopEnd ==
    /\ pc = "loop"
    /\ cmd = "email"
    /\ i > DictLen(email_to_models_map)
    /\ pc' = "ledger"
    /\ UNCHANGED <<Inputs, Data, err, i, alerts_found, log>>

----------------------------------------------------------------------------
(* Both commands: the last statement *)

\* A ledger write whose failure is raised to the caller.
LedgerOutcomes_raising == {"ok", "raised"}

\* How log_notification_status can end: the entry is written, or the write
\* fails and the failure is reported as a warning.
LedgerOutcomes == {"ok", "warned"}

\* LogNotificationStatus placed inside the dispatch loop as well.
LogNotificationStatus_in_loop ==
    /\ pc \in {"ledger", "loop"}
    /\ \E outcome \in LedgerOutcomes :
        /\ log' = Append(log,
            Call("log_notification_status", "", "status",
                 Range(model_to_alerts_map.keys), <<>>,
                 Qualifying(alerts, select), outcome))
        /\ IF outcome = "raised"
           THEN Raise("ledger")
           ELSE /\ pc' = IF pc = "ledger" THEN "done" ELSE pc
                /\ err' = err
    /\ UNCHANGED <<Inputs, Data, i, alerts_found>>

\* log_notification_status(start_date, end_date, alerts_per_model) in slack,
\* log_notification_status(start_date, end_date, model_to_alerts_map) in email.
\* It is the last statement and no handler surrounds it: the command returns
\* when it returns and raises when it raises.
LogNotificationStatus ==
    /\ pc = "ledger"
    /\ \E outcome \in LedgerOutcomes :
        /\ log' = Append(log,
            Call("log_notification_status", "", "status",
                 Range(model_to_alerts_map.keys), <<>>,
                 Qualifying(alerts, select), outcome))
        /\ IF outcome = "raised"
           THEN Raise("ledger")
           ELSE pc' = "done" /\ err' = err
    /\ UNCHANGED <<Inputs, Data, i, alerts_found>>

----------------------------------------------------------------------------

Next ==
    \/ ValidateAlertTypes
    \/ ReadConfig
    \/ ExportAlerts
    \/ NormalizeExports
    \/ LoadExports
    \/ SlackNotifyModel
    \/ SlackAllGood
    \/ EmailOwner
    \/ EmailLoopEnd
    \/ LogNotificationStatus

Spec == Init /\ [][Next]_vars

\* The ledgers an invocation can find: none yet, or the entry of an earlier
\* invocation that reported every model.
PriorLedgers == {<<>>, <<[models |-> Models]>>}

\* A notify command started after earlier invocations.
InitLedger ==
    /\ NotifyStart
    /\ ledger \in PriorLedgers

SpecLedger == InitLedger /\ [][Next]_vars

----------------------------------------------------------------------------
(* run: lines 198-238 *)

\* Dates are whole days counted from datetime.min, times are in hours.
MaxDay == 3

MaxNum == 2

HoursPerDay == 24

\* --start-date and --end-date: click.DateTime(formats=["%Y-%m-%d"]).
Dates == {HoursPerDay * d : d \in 0..MaxDay}

\* --interval values that split into a grain and an integer count.
Intervals == [time_grain : {"days", "hours", "weeks"}, num : -1..MaxNum]

\* The log keeps the first MaxLog dbt invocations of a run: more than any
\* run over Dates makes with an interval that moves for_date.
MaxLog == HoursPerDay * MaxDay + 1

Record(calls, c) == IF Len(calls) < MaxLog THEN Append(calls, c) ELSE calls

\* The values of the notify variables while `run` runs.
NotifyIdle ==
    /\ select = ALERT_TYPES
    /\ send_all_good = TRUE
    /\ loaded = FALSE
    /\ alerts = <<>>
    /\ monitored = <<>>
    /\ i = 1
    /\ alerts_found = FALSE
    /\ ledger = <<>>

NotifyState ==
    <<select, send_all_good, loaded, alerts, monitored, i, alerts_found,
      ledger>>

RunArgs == <<cmd, start_date, end_date, interval, full_refresh>>

InitRun ==
    /\ cmd = "run"
    /\ pc = "run"
    /\ err = "none"
    /\ log = <<>>
    /\ start_date \in Dates
    /\ end_date \in Dates
    /\ interval \in Intervals
    /\ full_refresh \in BOOLEAN
    /\ for_date = 0
    /\ delta = 0
    /\ NotifyIdle

\* timedelta(days=num), timedelta(hours=num)
timedelta(time_grain, num) ==
    IF time_grain = "days" THEN HoursPerDay * num ELSE num

\* Lines 199-210: for_date = start_date, the interval is turned into delta.
RunStart ==
    /\ pc = "run"
    /\ for_date' = start_date
    /\ IF interval.time_grain \in {"days", "hours"}
       THEN /\ delta' = timedelta(interval.time_grain, interval.num)
            /\ pc' = "while"
            /\ err' = err
       ELSE /\ Raise("unsupported_time_grain")
            /\ delta' = delta
    /\ UNCHANGED <<RunArgs, NotifyState, log>>

\* RunWhile testing `for_date <= end_date`.
RunWhile_inclusive ==
    /\ pc = "while"
    /\ pc' = IF for_date <= end_date THEN "body" ELSE "done"
    /\ UNCHANGED <<RunArgs, NotifyState, err, log, for_date, delta>>

\* Line 212: while for_date < end_date
RunWhile ==
    /\ pc = "while"
    /\ pc' = IF for_date < end_date THEN "body" ELSE "done"
    /\ UNCHANGED <<RunArgs, NotifyState, err, log, for_date, delta>>

\* The dbt invocation of one window: run_list and its exit code.
dbt_run(window_start, window_end, refresh, returncode) ==
    Call("dbt_run", "", IF refresh THEN "--full-refresh" ELSE "", {}, <<>>,
         <<window_start, window_end>>,
         IF returncode = 0 THEN "ok" ELSE "nonzero")

\* RunBody without completed_process.check_returncode().
RunBody_unchecked ==
    /\ pc = "body"
    /\ IF for_date + delta < 0
       THEN /\ Raise("overflow")
            /\ UNCHANGED <<log, for_date>>
       ELSE \E returncode \in {0, 1} :
            /\ log' = Record(log, dbt_run(for_date, for_date + delta,
                            for_date = start_date /\ full_refresh, returncode))
            /\ for_date' = for_date + delta
            /\ pc' = "while"
            /\ err' = err
    /\ UNCHANGED <<RunArgs, NotifyState, delta>>

\* Lines 214-233, one pass of the loop body: for_date + delta is computed
\* (OverflowError below datetime.min), dbt is run for the window,
\* check_returncode raises on a non-zero exit, for_date += delta.
RunBody ==
    /\ pc = "body"
    /\ IF for_date + delta < 0
       THEN /\ Raise("overflow")
            /\ UNCHANGED <<log, for_date>>
       ELSE \E returncode \in {0, 1} :
            /\ log' = Record(log, dbt_run(for_date, for_date + delta,
                            for_date = start_date /\ full_refresh, returncode))
            /\ IF returncode = 0
               THEN /\ for_date' = for_date + delta
                    /\ pc' = "while"
                    /\ err' = err
               ELSE /\ Raise("dbt")
                    /\ for_date' = for_date
    /\ UNCHANGED <<RunArgs, NotifyState, delta>>

NextRun ==
    \/ RunStart
    \/ RunWhile
    \/ RunBody

SpecRun == InitRun /\ [][NextRun]_vars

\* The process keeps running while it has a statement to run.
SpecRunFair == SpecRun /\ WF_vars(NextRun)

----------------------------------------------------------------------------
(* What the log of an invocation shows *)

Ops(op_set) == SelectSeq(log, LAMBDA c : c.op \in op_set)

DeliveryCalls == Ops(Deliveries)

SlackCalls == Ops({"slack_notify"})

EmailCalls == Ops({"send_mime_email"})

LedgerWrites == Ops({"log_notification_status"})

\* The command has returned or raised.
Ended == pc \in {"done", "failed"}

\* Read off monitored.json directly: the identifiers that own a model, the
\* models of one identifier, the models nobody owns.
ConcreteOwners == UNION {Range(monitored[k].owners) : k \in 1..Len(monitored)}

ModelsOf(o) ==
    {monitored[k].model : k \in {n \in 1..Len(monitored) :
                                    o \in Range(monitored[n].owners)}}

UnownedModels ==
    {monitored[k].model : k \in {n \in 1..Len(monitored) :
                                    monitored[n].owners = <<>>}}

\* Read off alerts.json directly: the models with a qualifying alert.
AlertingModels ==
    {alerts[k].model : k \in {n \in 1..Len(alerts) : alerts[n].type \in select}}

----------------------------------------------------------------------------
(* C1 *)

\* C1: in a notify run with several pending deliveries, a transport failure
\* of one delivery does not prevent the attempts to the remaining models or
\* recipients: when the run has ended, every model with a qualifying alert
\* (slack) and every concrete owner (email, unless the run sends nothing) has
\* a delivery attempt in the log.
C1_FailureIsolation ==
    (loaded /\ Ended) =>
        IF cmd = "slack"
        THEN \A m \in AlertingModels :
                \E k \in 1..Len(log) :
                    log[k].op = "slack_notify" /\ log[k].models = {m}
        ELSE (AlertingModels # {} \/ send_all_good) =>
                \A o \in ConcreteOwners :
                    \E k \in 1..Len(log) :
                        log[k].op = "send_mime_email" /\ log[k].to = o

----------------------------------------------------------------------------
(* C2 *)

ExportFailed ==
    \E k \in 1..Len(log) :
        \/ log[k].op = "export_alerts" /\ log[k].outcome = "nonzero"
        \/ /\ log[k].op \in {"json.load", "normalize_re_data_json_export"}
           /\ log[k].outcome = "malformed"

\* C2: when the export_alerts subprocess exits with a non-zero code, or an
\* exported file does not parse as JSON, the invocation makes no slack_notify
\* and no send_mime_email call.
C2_FailClosed == ExportFailed => DeliveryCalls = <<>>

C2_Witness ==
    /\ pc = "failed"
    /\ err \in {"export", "json"}
    /\ ExportFailed
    /\ cmd = "email"

----------------------------------------------------------------------------
(* C3 *)

\* C3: in slack, with an empty per-model aggregation: send-all-good enabled
\* gives exactly one slack_notify call, carrying the all-clear message;
\* send-all-good disabled gives no slack_notify call.
C3_AllClearPolicy ==
    (cmd = "slack" /\ loaded /\ DictLen(alerts_per_model) = 0) =>
        /\ \A k \in 1..Len(SlackCalls) : SlackCalls[k].kind = "all_good"
        /\ Len(SlackCalls) <= (IF send_all_good THEN 1 ELSE 0)
        /\ (send_all_good /\ pc \in {"ledger", "done", "failed"})
                => Len(SlackCalls) = 1

\* Alerts were exported, none of a selected type; the all-clear went out.
C3_Witness ==
    /\ cmd = "slack"
    /\ pc = "done"
    /\ alerts # <<>>
    /\ DictLen(alerts_per_model) = 0
    /\ send_all_good
    /\ Len(SlackCalls) = 1
    /\ SlackCalls[1].kind = "all_good"

----------------------------------------------------------------------------
(* C4 *)

\* C4: in slack, with a non-empty per-model aggregation, the run makes
\* exactly one slack_notify call for each model of the aggregation, in the
\* aggregation's order, and no all-clear call, whatever send-all-good is.
C4_OneCallPerModel ==
    (cmd = "slack" /\ loaded /\ DictLen(alerts_per_model) > 0 /\ Ended) =>
        /\ Len(SlackCalls) = DictLen(alerts_per_model)
        /\ \A k \in 1..Len(SlackCalls) :
            /\ SlackCalls[k].kind = "alert"
            /\ SlackCalls[k].models = {alerts_per_model.keys[k]}

----------------------------------------------------------------------------
(* C5 *)

\* C5: in email, whenever deliveries are made, exactly one send_mime_email
\* call is made per concrete owner of the owner-to-models map, none is
\* addressed to NO_OWNER, and without a concrete owner no call is made.
C5_OneMessagePerOwner ==
    (cmd = "email" /\ loaded /\ Ended) =>
        /\ \A k \in 1..Len(EmailCalls) : EmailCalls[k].to # NO_OWNER
        /\ ConcreteOwners = {} => EmailCalls = <<>>
        /\ EmailCalls # <<>> =>
            \A o \in ConcreteOwners :
                Cardinality({k \in 1..Len(EmailCalls) :
                                EmailCalls[k].to = o}) = 1

----------------------------------------------------------------------------
(* C6 *)

\* C6: every send_mime_email call hands the renderer exactly the owner's own
\* models united with the models of the unowned bucket, and so no model that
\* only another owner owns.
C6_UnownedMerge ==
    \A k \in 1..Len(EmailCalls) :
        EmailCalls[k].models = ModelsOf(EmailCalls[k].to) \cup UnownedModels

\* A message went to an owner of one model while the other model is unowned.
C6_Witness ==
    \E k \in 1..Len(EmailCalls) :
        /\ UnownedModels # {}
        /\ ModelsOf(EmailCalls[k].to) # {}
        /\ EmailCalls[k].models = Models

----------------------------------------------------------------------------
(* C7 *)

\* C7: every slack or email invocation that gets past validation and export
\* (its exports loaded) has written exactly one ledger entry when it ends,
\* also when a delivery attempt failed and when nothing was sent.
C7_LedgerCompleteness ==
    (loaded /\ Ended) => Len(LedgerWrites) = 1

----------------------------------------------------------------------------
(* C8 *)

\* C8: the ledger write happens at most once and no delivery call follows
\* it: every delivery of the run is in the log, with its outcome, before the
\* ledger entry.
C8_LedgerOrdering ==
    /\ Len(LedgerWrites) <= 1
    /\ \A j, k \in 1..Len(log) :
        (log[j].op = "log_notification_status" /\ log[k].op \in Deliveries)
            => k < j

\* Two deliveries, then the ledger entry.
C8_Witness ==
    /\ pc = "done"
    /\ Len(DeliveryCalls) = 2
    /\ log[Len(log)].op = "log_notification_status"

----------------------------------------------------------------------------
(* C9 *)

\* C9: when no alert qualifies and send-all-good is false, slack and email
\* make no delivery, for any owner map, and the run still ends with one
\* ledger entry, which records the empty result.
C9_EmptyRunSendsNothing ==
    (loaded /\ AlertingModels = {} /\ ~send_all_good) =>
        /\ DeliveryCalls = <<>>
        /\ pc # "failed"
        /\ pc = "done" =>
            /\ Len(LedgerWrites) = 1
            /\ LedgerWrites[1].models = {}

\* An email run over two concrete owners that sent nothing and logged it.
C9_Witness ==
    /\ cmd = "email"
    /\ pc = "done"
    /\ ~send_all_good
    /\ AlertingModels = {}
    /\ Cardinality(ConcreteOwners) = 2
    /\ DeliveryCalls = <<>>
    /\ Len(LedgerWrites) = 1

----------------------------------------------------------------------------
(* C10 *)

\* C10: a delivery that fails with a transient transport error is retried:
\* when the run has ended, a recipient whose delivery failed transiently has
\* more than one attempt in the log.
C10_BoundedRetry ==
    Ended =>
        \A k \in 1..Len(DeliveryCalls) :
            DeliveryCalls[k].outcome = "transient_error" =>
                Cardinality({j \in 1..Len(DeliveryCalls) :
                    /\ DeliveryCalls[j].op = DeliveryCalls[k].op
                    /\ DeliveryCalls[j].to = DeliveryCalls[k].to
                    /\ DeliveryCalls[j].models = DeliveryCalls[k].models}) > 1

----------------------------------------------------------------------------
(* C11 *)

\* C11: when a selected alert type is outside the canonical set, slack and
\* email fail in validate_alert_types before any other step: the invocation
\* reads no configuration, runs no export, reads no file, makes no delivery
\* and writes no ledger entry.
C11_InvalidSelectionFailsFirst ==
    (cmd \in {"slack", "email"} /\ ~(select \subseteq ALERT_TYPES)) =>
        /\ log = <<>>
        /\ pc \in {"validate", "failed"}
        /\ ~loaded

C11_Witness ==
    /\ "bogus" \in select
    /\ pc = "failed"
    /\ err = "invalid_selection"
    /\ log = <<>>

----------------------------------------------------------------------------
(* C12 *)

ConfigMissing ==
    \E k \in 1..Len(log) :
        log[k].op = "read_re_data_config" /\ log[k].outcome = "missing"

\* C12: when the channel configuration is missing or incomplete, the command
\* fails before the export subprocess runs and before any delivery call.
C12_MissingConfigFatal ==
    ConfigMissing =>
        /\ pc = "failed"
        /\ Ops({"export_alerts"}) = <<>>
        /\ DeliveryCalls = <<>>

\* slack, without --webhook-url, found no usable slack section.
C12_Witness ==
    /\ cmd = "slack"
    /\ ConfigMissing
    /\ err = "config"
    /\ Len(log) = 1

----------------------------------------------------------------------------
(* C13 *)

\* What a delivery call is about: the all-clear, a model (slack) or a
\* recipient (email).
Subject(c) ==
    IF c.kind = "all_good" THEN "all_good"
    ELSE IF c.op = "slack_notify" THEN CHOOSE m \in c.models : TRUE
    ELSE c.to

Issued == [k \in 1..Len(DeliveryCalls) |-> Subject(DeliveryCalls[k])]

\* The deliveries the inputs of the invocation call for, in order.
CalledFor ==
    IF cmd = "slack"
    THEN IF DictLen(alerts_per_model) > 0 THEN alerts_per_model.keys
         ELSE IF send_all_good THEN <<"all_good">> ELSE <<>>
    ELSE IF NothingToSend THEN <<>>
         ELSE SelectSeq(email_to_models_map.keys, LAMBDA o : o # NO_OWNER)

IsPrefix(s, t) == Len(s) <= Len(t) /\ s = SubSeq(t, 1, Len(s))

\* C13: the ledger neither gates nor deduplicates: whatever entries earlier
\* invocations wrote, the deliveries an invocation issues are the ones its
\* exports, selection and flags call for (all of them once its loop is
\* through, the first ones up to a raising delivery otherwise), so two
\* invocations with the same inputs issue the same deliveries.
C13_LedgerNeverGates ==
    loaded =>
        /\ IsPrefix(Issued, CalledFor)
        /\ pc \in {"ledger", "done"} => Issued = CalledFor

\* A model the ledger already reports is delivered again, in a complete run.
C13_Witness ==
    /\ pc = "done"
    /\ ledger # <<>>
    /\ \E k \in 1..Len(DeliveryCalls) :
        /\ DeliveryCalls[k].kind = "alert"
        /\ DeliveryCalls[k].models # {}
        /\ DeliveryCalls[k].models \subseteq ledger[1].models
    /\ Len(DeliveryCalls) = 2

----------------------------------------------------------------------------
(* C14 *)

\* C14: an alert record whose type is not selected is in no aggregation
\* entry handed to a renderer, so in no slack or email payload: the payload
\* of a slack message is exactly the selected alerts of its model, the
\* payload of an email exactly the selected alerts of the export.
C14_SelectionReachesPayload ==
    \A k \in 1..Len(DeliveryCalls) :
        LET c == DeliveryCalls[k]
        IN  /\ \A n \in 1..Len(c.payload) : c.payload[n].type \in select
            /\ c.op = "slack_notify" /\ c.kind = "alert" =>
                \A a \in Range(alerts) :
                    a \in Range(c.payload) <=>
                        (a.type \in select /\ {a.model} = c.models)
            /\ c.op = "send_mime_email" =>
                \A a \in Range(alerts) :
                    a \in Range(c.payload) <=> a.type \in select

\* A slack message went out for a model that also has an unselected alert.
C14_Witness ==
    \E k \in 1..Len(SlackCalls) :
        /\ SlackCalls[k].payload # <<>>
        /\ \E a \in Range(alerts) :
            /\ a.type \notin select
            /\ {a.model} = SlackCalls[k].models

----------------------------------------------------------------------------
(* C15 *)

----------------------------------------------------------------------------
(* C16 *)

\* The keys of the owner map the email loop has been at.
Visited ==
    SubSeq(email_to_models_map.keys, 1,
           IF pc = "failed" THEN i ELSE i - 1)

Recipients == [k \in 1..Len(EmailCalls) |-> EmailCalls[k].to]

\* What a single guard before the loop would have sent by now: nothing at
\* all when it skips the run, a message to every concrete key visited when
\* it does not.
GuardBeforeLoop ==
    IF DictLen(model_to_alerts_map) = 0 /\ ~send_all_good
    THEN <<>>
    ELSE SelectSeq(Visited, LAMBDA o : o # NO_OWNER)

\* C16: the in-loop break of email behaves as one guard evaluated before
\* the recipient loop, for every owner map, key order and place of NO_OWNER:
\* at every point of the loop the messages sent are those the guarded loop
\* would have sent, so a run whose loop is through has sent to nobody or to
\* every concrete owner, never to a part of them because of the guard.
C16_BreakIsGuardBeforeLoop ==
    (cmd = "email" /\ loaded) =>
        /\ Recipients = GuardBeforeLoop
        /\ pc \in {"ledger", "done"} =>
            \/ EmailCalls = <<>>
            \/ Range(Recipients) = ConcreteOwners

\* The break fired after the NO_OWNER key, with two concrete owners behind
\* it: nobody was sent anything.
C16_Witness ==
    /\ cmd = "email"
    /\ pc = "done"
    /\ ~send_all_good
    /\ DictLen(model_to_alerts_map) = 0
    /\ DictLen(email_to_models_map) = 3
    /\ email_to_models_map.keys[1] = NO_OWNER
    /\ EmailCalls = <<>>

----------------------------------------------------------------------------
(* C17 *)

\* C17: in email, when no alert qualifies and send-all-good is enabled,
\* every concrete owner of the owner map is sent exactly one message and
\* NO_OWNER none, when the run has ended.
C17_AllGoodPerOwner ==
    (cmd = "email" /\ loaded /\ Ended
        /\ AlertingModels = {} /\ send_all_good) =>
        /\ \A o \in ConcreteOwners :
            Cardinality({k \in 1..Len(EmailCalls) :
                                EmailCalls[k].to = o}) = 1
        /\ \A k \in 1..Len(EmailCalls) : EmailCalls[k].to # NO_OWNER

----------------------------------------------------------------------------
(* C18 *)

\* C18: run terminates for every interval it accepts and every start and
\* end date: after finitely many dbt invocations the command has returned
\* or raised.
C18_RunTerminates == <>(pc \in {"done", "failed"})

----------------------------------------------------------------------------
(* C19 *)

DbtRuns == Ops({"dbt_run"})

\* The hours of the interval, read off --interval.
IntervalHours ==
    IF interval.time_grain = "days" THEN 24 * interval.num ELSE interval.num

\* C19: with a positive delta the k-th dbt invocation (from 0) is given the
\* window [start_date + k*delta, start_date + (k+1)*delta): the windows are
\* ascending, contiguous and do not overlap; a run that leaves the loop has
\* made one invocation for each k with start_date + k*delta < end_date and
\* none when start_date >= end_date.
C19_WindowTiling ==
    (cmd = "run" /\ pc # "run"
        /\ interval.time_grain \in {"days", "hours"} /\ interval.num > 0) =>
        /\ \A k \in 1..Len(DbtRuns) :
            /\ DbtRuns[k].payload =
                <<start_date + (k - 1) * IntervalHours,
                  start_date + k * IntervalHours>>
            /\ DbtRuns[k].payload[1] < end_date
            /\ k > 1 => DbtRuns[k].payload[1] = DbtRuns[k - 1].payload[2]
        /\ pc = "done" =>
            Len(DbtRuns) = Cardinality({k \in 0..MaxLog :
                                start_date + k * IntervalHours < end_date})
        /\ start_date >= end_date => DbtRuns = <<>>

\* Two windows were run and the second ends after end_date.
C19_Witness ==
    /\ cmd = "run"
    /\ pc = "done"
    /\ interval.num > 0
    /\ Len(DbtRuns) = 2
    /\ DbtRuns[2].payload[2] > end_date

----------------------------------------------------------------------------
(* C20 *)

\* C20: when the dbt subprocess of a window returns a non-zero exit code,
\* run raises and makes no dbt invocation for a later window; an unsupported
\* time grain raises before any dbt invocation.
C20_AbortAtFirstFailure ==
    cmd = "run" =>
        /\ \A k \in 1..Len(DbtRuns) :
            DbtRuns[k].outcome = "nonzero" =>
                /\ k = Len(DbtRuns)
                /\ pc = "failed"
                /\ err = "dbt"
        /\ interval.time_grain \notin {"days", "hours"} =>
            /\ DbtRuns = <<>>
            /\ pc \in {"run", "failed"}

\* The first window ran, the second failed, the run raised.
C20_Witness ==
    /\ cmd = "run"
    /\ pc = "failed"
    /\ Len(DbtRuns) = 2
    /\ DbtRuns[1].outcome = "ok"
    /\ DbtRuns[2].outcome = "nonzero"
    /\ DbtRuns[2].payload[2] < end_date

----------------------------------------------------------------------------
(* C21 *)

\* C21: in run, the dbt invocation of the first window carries
\* '--full-refresh' exactly when the full_refresh flag is set, and no later
\* dbt invocation carries it.
C21_FullRefreshFirstOnly ==
    cmd = "run" =>
        \A k \in 1..Len(DbtRuns) :
            DbtRuns[k].kind = "--full-refresh" <=> (k = 1 /\ full_refresh)

----------------------------------------------------------------------------
(* C22 *)

\* The positions in the log of the calls of the given operation that
\* returned.
Returned(op) == {k \in 1..Len(log) : log[k].op = op /\ log[k].outcome = "ok"}

\* C22: in the slack command and in the email command alike, the exports
\* are loaded only after a successful export and after
\* normalize_re_data_json_export has normalized them: every json.load of an
\* invocation is preceded by the export and then by the normalization.
C22_BothNormalizeBeforeLoad ==
    cmd \in {"slack", "email"} =>
        \A k \in 1..Len(log) :
            log[k].op = "json.load" =>
                \E e \in Returned("export_alerts"),
                   n \in Returned("normalize_re_data_json_export") :
                    e < n /\ n < k

====
